---- MODULE Spec2Model ----
(***************************************************************************)
(* TipKoro balance-and-subscription core: the edge functions               *)
(* request-withdrawal, process-donation (simulated and gateway),           *)
(* create-creator-subscription (gateway), rupantorpay-webhook and the      *)
(* admin approve/reject action, over the users / donations /               *)
(* subscriptions / withdrawals tables.                                     *)
(*                                                                         *)
(* Every handler is split at its awaits on the storage service and on the  *)
(* gateway: one action per round trip, the local computation after an      *)
(* await belonging to the action of that await.                            *)
(***************************************************************************)
EXTENDS Integers, Sequences, FiniteSets, Bags, TLC

\* ------------------------------------------------------------------ bounds
MaxWithdrawals == 2      \* concurrent request-withdrawal invocations
MaxSimDonations == 2     \* process-donation (simulated) invocations
MaxDonations == 2        \* process-donation (gateway) invocations
MaxSubscriptions == 2    \* create-creator-subscription (gateway) invocations
MaxSimSubscriptions == 1 \* create-creator-subscription (simulated) invocations
MaxClock == 2            \* clock ticks after the initial instant
MaxEffects == 2          \* effects of one component whose reads are awaited

\* ------------------------------------------------------- program constants
MinDonation == 10        \* amount < 10 is rejected
MonthlyPrice == 100      \* 100 BDT per month
TicksPerDay == 2         \* clock readings of one UTC day: midnight, midday

\* ------------------------------------------------------------------ inputs
Users == {"c1", "c2", "d1"}
Creators == {"c1", "c2"}
\* The users that send requests; c2 is a creator that has signed up only.
Requesters == {"c1", "d1"}
Callers == Requesters \cup {"anon"}     \* "anon": a bearer token of no user
Targets == Requesters \cup {""}         \* "": a request without creator_id
WithdrawAmounts == {0, 60, 100}
DonationAmounts == {9, 10, 50}
Durations == {1}
\* Math.random().toString(36).substring(2, 8).toUpperCase(): two suffixes
Randoms == {1, 2}
InitAmounts == {0, 100}
InitDays == {14}                        \* 15 January of the model year
\* the callback body's advisory fields
Bodies == {[status |-> "completed", amount |-> "50"],
           [status |-> "failed", amount |-> "1"]}
\* the verification call's answer
Verifications == {[status |-> TRUE, payment_status |-> "completed"],
                  [status |-> TRUE, payment_status |-> "failed"],
                  [status |-> FALSE, payment_status |-> "completed"]}

WReqs == 1..MaxWithdrawals
SDReqs == 1..MaxSimDonations
DReqs == 1..MaxDonations
SubReqs == 1..MaxSubscriptions
SSubReqs == 1..MaxSimSubscriptions
\* the components that keep the gate's result in their state
Pages == {"UserProfile", "DonationPage"}
Components == Pages \cup {"SubscriptionMiddleware"}
OtherPath == ""    \* a pathname that is neither /u/<name> nor /d/<name>
Pathnames == Users \cup {OtherPath}

VARIABLES
  now,            \* Date.now() / new Date(), in clock ticks
  current_amount, \* users.current_amount
  subscription_status,      \* users.subscription_status
  subscription_expires_at,  \* users.subscription_expires_at, in clock ticks
  withdrawals,    \* rows of the withdrawals table
  donations,      \* rows of the donations table
  subscriptions,  \* rows of the subscriptions table
  wreq,           \* request-withdrawal invocations
  sdreq,          \* process-donation (simulated) invocations
  dreq,           \* process-donation (gateway) invocations
  subreq,         \* create-creator-subscription (gateway) invocations
  checkouts,      \* transaction ids of the checkout sessions the gateway opened
  webhook,        \* the last rupantorpay-webhook delivery
  ssubreq,        \* create-creator-subscription (simulated) invocations
  pages           \* state of the profile page, the donation page and the
                  \* subscription middleware

vars == <<now, current_amount, subscription_status, subscription_expires_at,
          withdrawals, donations, subscriptions, wreq, sdreq, dreq, subreq,
          checkouts, webhook, ssubreq, pages>>

\* ----------------------------------------------------------------- helpers
\* users.role: set at signup, changed by no handler of the core.
role(u) == IF u \in Creators THEN "creator" ELSE "donator"

Today == now \div TicksPerDay

\* .single(): the row when exactly one row matches, otherwise null.
NoRow == [id |-> 0]
single(rows) == IF Cardinality(rows) = 1 THEN CHOOSE x \in rows : TRUE ELSE NoRow

\* The sum of the amount column of a set of rows.
RECURSIVE SumAmounts(_)
SumAmounts(rows) ==
  IF rows = {} THEN 0
  ELSE LET x == CHOOSE y \in rows : TRUE IN x.amount + SumAmounts(rows \ {x})

\* ---------------------------------------------------------------- dates
\* A Date is a clock reading; a DATE column and an ISO date string are a day
\* number, day 0 being 1 January of a 365-day model year.
MonthLens == <<31, 28, 31, 30, 31, 30, 31, 31, 30, 31, 30, 31>>

RECURSIVE DaysBefore(_)
DaysBefore(m) == IF m = 0 THEN 0 ELSE MonthLens[m] + DaysBefore(m - 1)

\* First day of the month numbered k from January of year 0 (k = 0).
StartOfMonth(k) == (365 * (k \div 12)) + DaysBefore(k % 12)

\* getMonth(), counted from January of year 0.
getMonth(day) ==
  (12 * (day \div 365)) +
  (CHOOSE m \in 0..11 : DaysBefore(m) <= (day % 365) /\ (day % 365) < DaysBefore(m + 1))

\* getDate() - 1
DayOfMonth(day) == day - StartOfMonth(getMonth(day))

\* d.setMonth(d.getMonth() + n): the day of the month is kept and runs over
\* into the following month when the target month is shorter; the time of
\* day is kept.
setMonth(date, n) ==
  LET day == date \div TicksPerDay IN
  (StartOfMonth(getMonth(day) + n) + DayOfMonth(day)) * TicksPerDay
    + (date % TicksPerDay)

\* toISOString().split('T')[0]
IsoDate(date) == date \div TicksPerDay

\* new Date('YYYY-MM-DD'): midnight UTC of that day
ParseDate(day) == day * TicksPerDay

\* ------------------------------------------------------ transaction ids
\* `${KIND}_${a}_${b}`
TxnId(kind, a, b) == <<kind, a, b>>
NoTxn == <<"", "", 0>>
startsWith(txn, prefix) == txn[1] = prefix
\* id.substring(0, 8)
substring8(u) == IF u = "c2" THEN "c1" ELSE u   \* c1, c2: ids that agree on it

WIdle == [pc |-> "idle", user |-> "anon", amount |-> 0, seen |-> 0, result |-> "none"]
SDIdle == [pc |-> "idle", creator |-> "", amount |-> 0, txn |-> NoTxn,
           result |-> "none"]
DIdle == [pc |-> "idle", creator |-> "", amount |-> 0, txn |-> NoTxn,
          result |-> "none"]
SubIdle == [pc |-> "idle", user |-> "anon", months |-> 0, txn |-> NoTxn,
            today |-> 0, existing |-> NoRow, result |-> "none"]
\* useState initial values: creator null (the middleware: subscriptionStatus
\* null), isActive false, loading true; fetching is the bag of the reads that
\* the effects of the component instance are awaiting, each the username of
\* its effect and the table read.
Unmounted == [creator |-> "", isActive |-> FALSE, loading |-> TRUE,
              fetching |-> EmptyBag]
Awaited(username, table) == [username |-> username, table |-> table]
NoWebhook == [txn |-> NoTxn, body |-> [status |-> "", amount |-> ""],
              verification |-> [status |-> FALSE, payment_status |-> ""],
              count |-> 0, matched |-> 0]

\* --------------------------------------------------- request-withdrawal
\* Authentication, input validation, the fresh read of the balance and the
\* two checks made on what was read.
WithdrawalCheck(caller, amount) ==
  IF caller = "anon" THEN "unauthenticated"
  ELSE IF amount <= 0 THEN "invalid"
  ELSE IF role(caller) # "creator" THEN "not_creator"
  ELSE IF current_amount[caller] < amount THEN "insufficient"
  ELSE "ok"

RequestWithdrawal(r, caller, amount) ==
  /\ wreq[r].pc = "idle"
  /\ \A q \in WReqs : q < r => wreq[q].pc # "idle"
  /\ LET c == WithdrawalCheck(caller, amount) IN
     wreq' = [wreq EXCEPT ![r] =
       [pc |-> IF c = "ok" THEN "insert" ELSE "done",
        user |-> caller, amount |-> amount,
        seen |-> IF caller \in Users THEN current_amount[caller] ELSE 0,
        result |-> IF c = "ok" THEN "none" ELSE c]]
  /\ UNCHANGED <<now, current_amount, subscription_status, subscription_expires_at,
                 withdrawals, donations, subscriptions, sdreq, dreq, subreq,
                 checkouts, webhook, ssubreq, pages>>

\* .from('withdrawals').insert({..., status: 'pending'}); the row's id is the
\* invocation's number. ok = FALSE: the insert returns withdrawalError.
InsertWithdrawal(r, ok) ==
  /\ wreq[r].pc = "insert"
  /\ IF ok
       THEN /\ withdrawals' = withdrawals \cup
                 {[id |-> r, user_id |-> wreq[r].user, amount |-> wreq[r].amount,
                   status |-> "pending", processed |-> FALSE]}
            /\ wreq' = [wreq EXCEPT ![r].pc = "debit"]
       ELSE /\ withdrawals' = withdrawals
            /\ wreq' = [wreq EXCEPT ![r].pc = "done", ![r].result = "insert_failed"]
  /\ UNCHANGED <<now, current_amount, subscription_status, subscription_expires_at,
                 donations, subscriptions, sdreq, dreq, subreq, checkouts, webhook, ssubreq, pages>>

\* The value that the expression current_amount - ${amount} names.
Debited(balance, amount) == balance - amount

\* Mutant: the update is sent and the storage applies the delta.
DebitBalanceApplying(r) ==
  /\ wreq[r].pc = "debit"
  /\ current_amount' = [current_amount EXCEPT ![wreq[r].user] =
                          Debited(@, wreq[r].amount)]
  /\ wreq' = [wreq EXCEPT ![r].pc = "done", ![r].result = "success"]
  /\ UNCHANGED <<now, subscription_status, subscription_expires_at, withdrawals,
                 donations, subscriptions, sdreq, dreq, subreq, checkouts, webhook,
                 ssubreq, pages>>

\* The update of users.current_amount. Its payload is built with
\* supabaseService.sql`current_amount - ${amount}`, and the client the
\* handler imports (supabase-js 2.45.0) has no member sql: the expression
\* raises a TypeError before the update is sent. Control passes to the
\* handler's catch, which answers 500: the balance is not written, the row
\* that was inserted stays, and the branch on updateError that deletes the
\* row is not reached.
DebitBalance(r) ==
  /\ wreq[r].pc = "debit"
  /\ current_amount' = current_amount
  /\ wreq' = [wreq EXCEPT ![r].pc = "done", ![r].result = "internal_error"]
  /\ UNCHANGED <<now, subscription_status, subscription_expires_at, withdrawals,
                 donations, subscriptions, sdreq, dreq, subreq, checkouts, webhook, ssubreq, pages>>

\* ------------------------------------------------ admin approve / reject
\* Mutant: a rejection gives the held amount back to the balance.
handleWithdrawalRestoring(withdrawalId, action, ok) ==
  /\ \E w \in withdrawals : w.id = withdrawalId
  /\ withdrawals' = {IF w.id = withdrawalId /\ ok
                       THEN [w EXCEPT !.status = IF action = "approve" THEN "approved"
                                                 ELSE "rejected",
                                      !.processed = TRUE]
                       ELSE w : w \in withdrawals}
  /\ current_amount' =
       [u \in Users |->
          current_amount[u] +
            SumAmounts({w \in withdrawals :
                          /\ w.id = withdrawalId /\ w.user_id = u
                          /\ action = "reject" /\ ok})]
  /\ UNCHANGED <<now, subscription_status, subscription_expires_at,
                 donations, subscriptions, wreq, sdreq, dreq, subreq, checkouts,
                 webhook, ssubreq, pages>>

\* The update is filtered by the id only: the buttons are rendered for the
\* rows that were pending when the list was fetched, whatever their status in
\* the table by now. ok = FALSE: the update returns an error, a toast is
\* shown and nothing is written.
handleWithdrawal(withdrawalId, action, ok) ==
  /\ \E w \in withdrawals : w.id = withdrawalId
  /\ withdrawals' = {IF w.id = withdrawalId /\ ok
                       THEN [w EXCEPT !.status = IF action = "approve" THEN "approved"
                                                 ELSE "rejected",
                                      !.processed = TRUE]
                       ELSE w : w \in withdrawals}
  /\ UNCHANGED <<now, current_amount, subscription_status, subscription_expires_at,
                 donations, subscriptions, wreq, sdreq, dreq, subreq, checkouts,
                 webhook, ssubreq, pages>>

\* ------------------------------------------------------ process-donation
\* The subscription row read by .eq('user_id', creator_id).single()
SubscriptionOf(u) == single({x \in subscriptions : x.user_id = u})

\* Mutant: the is_active flag of the subscription is not looked at.
SubscriptionActiveUnflagged(subscription) ==
  /\ subscription # NoRow
  /\ ~(ParseDate(subscription.paid_until) < now)

\* The intake precondition on the subscription that was read:
\* !subscription || !subscription.is_active || new Date(paid_until) < new Date()
\* rejects.
SubscriptionActive(subscription) ==
  /\ subscription # NoRow
  /\ subscription.is_active
  /\ ~(ParseDate(subscription.paid_until) < now)

\* Mutant: the minimum amount itself is rejected.
DonationCheckStrict(creator_id, amount) ==
  IF creator_id = "" \/ amount = 0 \/ amount <= MinDonation THEN "invalid"
  ELSE IF role(creator_id) # "creator" THEN "not_found"
  ELSE IF ~SubscriptionActive(SubscriptionOf(creator_id)) THEN "inactive"
  ELSE "ok"

\* Input validation, the creator lookup and the subscription check, common to
\* both process-donation handlers.
DonationCheck(creator_id, amount) ==
  IF creator_id = "" \/ amount = 0 \/ amount < MinDonation THEN "invalid"
  ELSE IF role(creator_id) # "creator" THEN "not_found"
  ELSE IF ~SubscriptionActive(SubscriptionOf(creator_id)) THEN "inactive"
  ELSE "ok"

\* --- simulated path
\* Validation, the checks and the transaction id `TXN_${Date.now()}_${random}`.
ProcessDonationSim(r, creator_id, amount, random) ==
  /\ sdreq[r].pc = "idle"
  /\ \A q \in SDReqs : q < r => sdreq[q].pc # "idle"
  /\ LET c == DonationCheck(creator_id, amount) IN
     sdreq' = [sdreq EXCEPT ![r] =
       [pc |-> IF c = "ok" THEN "insert" ELSE "done",
        creator |-> creator_id, amount |-> amount,
        txn |-> IF c = "ok" THEN TxnId("TXN", ToString(now), random) ELSE NoTxn,
        result |-> IF c = "ok" THEN "none" ELSE c]]
  /\ UNCHANGED <<now, current_amount, subscription_status, subscription_expires_at,
                 withdrawals, donations, subscriptions, wreq, dreq, subreq,
                 checkouts, webhook, ssubreq, pages>>

\* insert({..., payment_status: 'completed', txn_id: txnId})
InsertDonationSim(r, ok) ==
  /\ sdreq[r].pc = "insert"
  /\ IF ok
       THEN /\ donations' = donations \cup
                 {[id |-> 10 + r, creator_id |-> sdreq[r].creator,
                   amount |-> sdreq[r].amount, payment_status |-> "completed",
                   txn_id |-> sdreq[r].txn]}
            /\ sdreq' = [sdreq EXCEPT ![r].pc = "credit"]
       ELSE /\ donations' = donations
            /\ sdreq' = [sdreq EXCEPT ![r].pc = "done", ![r].result = "insert_failed"]
  /\ UNCHANGED <<now, current_amount, subscription_status, subscription_expires_at,
                 withdrawals, subscriptions, wreq, dreq, subreq, checkouts, webhook, ssubreq, pages>>

\* The value that the expression current_amount + ${amount} names.
Credited(balance, amount) == balance + amount

\* update({current_amount: supabaseService.sql`current_amount + ${amount}`}):
\* as in request-withdrawal, the expression raises before the update is
\* sent. The handler's catch answers 500; the donation row inserted as
\* completed stays and the balance is not written.
CreditBalance(r) ==
  /\ sdreq[r].pc = "credit"
  /\ current_amount' = current_amount
  /\ sdreq' = [sdreq EXCEPT ![r].pc = "done", ![r].result = "internal_error"]
  /\ UNCHANGED <<now, subscription_status, subscription_expires_at, withdrawals,
                 donations, subscriptions, wreq, dreq, subreq, checkouts, webhook, ssubreq, pages>>

\* --- gateway path
\* Validation, the checks and the transaction id
\* `DON_${creator_id.substring(0, 8)}_${Date.now()}`; the checkout call is
\* sent.
ProcessDonation(r, creator_id, amount) ==
  /\ dreq[r].pc = "idle"
  /\ \A q \in DReqs : q < r => dreq[q].pc # "idle"
  /\ LET c == DonationCheck(creator_id, amount)
         txnId == TxnId("DON", substring8(creator_id), now)
     IN
     dreq' = [dreq EXCEPT ![r] =
       [pc |-> IF c = "ok" THEN "checkout" ELSE "done",
        creator |-> creator_id, amount |-> amount,
        txn |-> IF c = "ok" THEN txnId ELSE NoTxn,
        result |-> IF c # "ok" THEN c ELSE "none"]]
  /\ UNCHANGED <<now, current_amount, subscription_status, subscription_expires_at,
                 withdrawals, donations, subscriptions, wreq, sdreq, subreq,
                 checkouts, webhook, ssubreq, pages>>

\* Mutant: the answer of the checkout call is not looked at.
CheckoutDonationUnchecked(r, accepted) ==
  /\ dreq[r].pc = "checkout"
  /\ dreq' = [dreq EXCEPT ![r].pc = "insert"]
  /\ checkouts' = IF accepted THEN checkouts \cup {dreq[r].txn} ELSE checkouts
  /\ UNCHANGED <<now, current_amount, subscription_status, subscription_expires_at,
                 withdrawals, donations, subscriptions, wreq, sdreq, subreq, webhook,
                 ssubreq, pages>>

\* The answer of the checkout call. accepted = FALSE: the call rejects or
\* rupantorPayResult.status is falsy, the handler throws and its catch
\* answers 500.
CheckoutDonation(r, accepted) ==
  /\ dreq[r].pc = "checkout"
  /\ dreq' = [dreq EXCEPT ![r].pc = IF accepted THEN "insert" ELSE "done",
                          ![r].result = IF accepted THEN "none" ELSE "internal_error"]
  /\ checkouts' = IF accepted THEN checkouts \cup {dreq[r].txn} ELSE checkouts
  /\ UNCHANGED <<now, current_amount, subscription_status, subscription_expires_at,
                 withdrawals, donations, subscriptions, wreq, sdreq, subreq, webhook,
                 ssubreq, pages>>

\* Mutant: the row is inserted as completed and the creator credited at the
\* intake.
InsertDonationCrediting(r, ok) ==
  /\ dreq[r].pc = "insert"
  /\ IF ok
       THEN /\ donations' = donations \cup
                 {[id |-> r, creator_id |-> dreq[r].creator,
                   amount |-> dreq[r].amount, payment_status |-> "completed",
                   txn_id |-> dreq[r].txn]}
            /\ current_amount' = [current_amount EXCEPT ![dreq[r].creator] =
                                    Credited(@, dreq[r].amount)]
            /\ dreq' = [dreq EXCEPT ![r].pc = "done", ![r].result = "success"]
       ELSE /\ donations' = donations
            /\ current_amount' = current_amount
            /\ dreq' = [dreq EXCEPT ![r].pc = "done", ![r].result = "insert_failed"]
  /\ UNCHANGED <<now, subscription_status, subscription_expires_at,
                 withdrawals, subscriptions, wreq, sdreq, subreq, checkouts, webhook,
                 ssubreq, pages>>

\* insert({..., payment_status: 'pending', txn_id: txnId}); the balance is not
\* touched.
InsertDonation(r, ok) ==
  /\ dreq[r].pc = "insert"
  /\ IF ok
       THEN /\ donations' = donations \cup
                 {[id |-> r, creator_id |-> dreq[r].creator,
                   amount |-> dreq[r].amount, payment_status |-> "pending",
                   txn_id |-> dreq[r].txn]}
            /\ dreq' = [dreq EXCEPT ![r].pc = "done", ![r].result = "success"]
       ELSE /\ donations' = donations
            /\ dreq' = [dreq EXCEPT ![r].pc = "done", ![r].result = "insert_failed"]
  /\ UNCHANGED <<now, current_amount, subscription_status, subscription_expires_at,
                 withdrawals, subscriptions, wreq, sdreq, subreq, checkouts, webhook, ssubreq, pages>>

\* ------------------------------------- create-creator-subscription (gateway)
\* Authentication and the role check.
SubscriptionCheck(caller) ==
  IF caller = "anon" THEN "unauthenticated"
  ELSE IF role(caller) # "creator" THEN "not_creator"
  ELSE "ok"

subscriptionAmount(duration_months) == MonthlyPrice * duration_months

\* Authentication, the role check, the transaction id
\* `SUB_${user.id.substring(0, 8)}_${Date.now()}` and the price; the
\* checkout call is sent.
CreateSubscription(r, caller, duration_months) ==
  /\ subreq[r].pc = "idle"
  /\ \A q \in SubReqs : q < r => subreq[q].pc # "idle"
  /\ LET c == SubscriptionCheck(caller)
         txnId == TxnId("SUB", substring8(caller), now)
     IN
     subreq' = [subreq EXCEPT ![r] =
       [pc |-> IF c = "ok" THEN "checkout" ELSE "done",
        user |-> caller, months |-> duration_months,
        txn |-> IF c = "ok" THEN txnId ELSE NoTxn,
        today |-> 0, existing |-> NoRow,
        result |-> IF c # "ok" THEN c ELSE "none"]]
  /\ UNCHANGED <<now, current_amount, subscription_status, subscription_expires_at,
                 withdrawals, donations, subscriptions, wreq, sdreq, dreq,
                 checkouts, webhook, ssubreq, pages>>

\* The answer of the checkout call, then today = new Date(); the read of the
\* caller's subscription is sent. accepted = FALSE: the call rejects or
\* rupantorPayResult.status is falsy, the handler throws and its catch
\* answers 500.
CheckoutSubscription(r, accepted) ==
  /\ subreq[r].pc = "checkout"
  /\ subreq' = [subreq EXCEPT ![r].pc = IF accepted THEN "read" ELSE "done",
                              ![r].today = IF accepted THEN now ELSE 0,
                              ![r].result = IF accepted THEN "none"
                                            ELSE "internal_error"]
  /\ checkouts' = IF accepted THEN checkouts \cup {subreq[r].txn} ELSE checkouts
  /\ UNCHANGED <<now, current_amount, subscription_status, subscription_expires_at,
                 withdrawals, donations, subscriptions, wreq, sdreq, dreq, webhook,
                 ssubreq, pages>>

\* The answer of the read of the caller's existing subscription.
ReadSubscription(r) ==
  /\ subreq[r].pc = "read"
  /\ LET x == SubscriptionOf(subreq[r].user) IN
     subreq' = [subreq EXCEPT ![r].pc = "write",
                  ![r].existing = IF x = NoRow THEN NoRow
                                  ELSE [id |-> x.id, paid_until |-> x.paid_until]]
  /\ UNCHANGED <<now, current_amount, subscription_status, subscription_expires_at,
                 withdrawals, donations, subscriptions, wreq, sdreq, dreq,
                 checkouts, webhook, ssubreq, pages>>

\* Mutant: the renewal always extends from today.
newPaidUntilFromToday(existing_paid_until, today, duration_months) ==
  setMonth(today, duration_months)

\* paidUntil = today + duration_months
paidUntil(today, duration_months) == setMonth(today, duration_months)

\* newPaidUntil = (currentPaidUntil > today ? currentPaidUntil : today)
\*                + duration_months
newPaidUntil(existing_paid_until, today, duration_months) ==
  LET currentPaidUntil == ParseDate(existing_paid_until)
      extendFrom == IF currentPaidUntil > today THEN currentPaidUntil ELSE today
  IN setMonth(extendFrom, duration_months)

\* The update of the row that was read, or the insert of a new row; is_active
\* is false on both branches. ok = FALSE: subscriptionResult.error.
WriteSubscription(r, ok) ==
  /\ subreq[r].pc = "write"
  /\ LET q == subreq[r] IN
     IF ~ok
       THEN /\ subscriptions' = subscriptions
            /\ subreq' = [subreq EXCEPT ![r].pc = "done", ![r].result = "write_failed"]
       ELSE /\ subreq' = [subreq EXCEPT ![r].pc = "mirror"]
            /\ IF q.existing # NoRow
                 THEN subscriptions' =
                        {IF x.id = q.existing.id
                           THEN [x EXCEPT
                                   !.paid_until = IsoDate(newPaidUntil(
                                      q.existing.paid_until, q.today, q.months)),
                                   !.is_active = FALSE,
                                   !.last_payment_txn_id = q.txn]
                           ELSE x : x \in subscriptions}
                 ELSE subscriptions' = subscriptions \cup
                        {[id |-> r, user_id |-> q.user,
                          amount |-> subscriptionAmount(q.months),
                          paid_until |-> IsoDate(paidUntil(q.today, q.months)),
                          is_active |-> FALSE,
                          last_payment_txn_id |-> q.txn,
                          status |-> "pending"]}
  /\ UNCHANGED <<now, current_amount, subscription_status, subscription_expires_at,
                 withdrawals, donations, wreq, sdreq, dreq, checkouts, webhook, ssubreq, pages>>

\* The mirror on the users row: subscription_status 'active' and
\* subscription_expires_at = paidUntil; an error is logged and ignored.
MirrorSubscription(r, ok) ==
  /\ subreq[r].pc = "mirror"
  /\ LET q == subreq[r] IN
     IF ok
       THEN /\ subscription_status' = [subscription_status EXCEPT ![q.user] = "active"]
            /\ subscription_expires_at' =
                 [subscription_expires_at EXCEPT ![q.user] = paidUntil(q.today, q.months)]
       ELSE UNCHANGED <<subscription_status, subscription_expires_at>>
  /\ subreq' = [subreq EXCEPT ![r].pc = "done", ![r].result = "success"]
  /\ UNCHANGED <<now, current_amount, withdrawals, donations, subscriptions,
                 wreq, sdreq, dreq, checkouts, webhook, ssubreq, pages>>

\* ----------------------------------- create-creator-subscription (simulated)
\* Authentication, the role check and the transaction id
\* `SUB_${Date.now()}_${random}`; the simulated payment delay starts.
CreateSubscriptionSim(r, caller, duration_months, random) ==
  /\ ssubreq[r].pc = "idle"
  /\ \A q \in SSubReqs : q < r => ssubreq[q].pc # "idle"
  /\ LET c == SubscriptionCheck(caller) IN
     ssubreq' = [ssubreq EXCEPT ![r] =
       [pc |-> IF c = "ok" THEN "delay" ELSE "done",
        user |-> caller, months |-> duration_months,
        txn |-> IF c = "ok" THEN TxnId("SUB", ToString(now), random) ELSE NoTxn,
        today |-> 0, existing |-> NoRow,
        result |-> IF c = "ok" THEN "none" ELSE c]]
  /\ UNCHANGED <<now, current_amount, subscription_status, subscription_expires_at,
                 withdrawals, donations, subscriptions, wreq, sdreq, dreq, subreq,
                 checkouts, webhook, pages>>

\* The end of the simulated payment delay, then today = new Date(); the read
\* of the caller's subscription is sent.
DelaySubscriptionSim(r) ==
  /\ ssubreq[r].pc = "delay"
  /\ ssubreq' = [ssubreq EXCEPT ![r].pc = "read", ![r].today = now]
  /\ UNCHANGED <<now, current_amount, subscription_status, subscription_expires_at,
                 withdrawals, donations, subscriptions, wreq, sdreq, dreq, subreq,
                 checkouts, webhook, pages>>

\* The answer of the read of the caller's existing subscription.
ReadSubscriptionSim(r) ==
  /\ ssubreq[r].pc = "read"
  /\ LET x == SubscriptionOf(ssubreq[r].user) IN
     ssubreq' = [ssubreq EXCEPT ![r].pc = "write",
                   ![r].existing = IF x = NoRow THEN NoRow
                                   ELSE [id |-> x.id, paid_until |-> x.paid_until]]
  /\ UNCHANGED <<now, current_amount, subscription_status, subscription_expires_at,
                 withdrawals, donations, subscriptions, wreq, sdreq, dreq, subreq,
                 checkouts, webhook, pages>>

\* The update of the row that was read, or the insert of a new row; is_active
\* is true on both branches. The inserted row's id is 20 + the invocation's
\* number.
WriteSubscriptionSim(r, ok) ==
  /\ ssubreq[r].pc = "write"
  /\ LET q == ssubreq[r] IN
     IF ~ok
       THEN /\ subscriptions' = subscriptions
            /\ ssubreq' = [ssubreq EXCEPT ![r].pc = "done", ![r].result = "write_failed"]
       ELSE /\ ssubreq' = [ssubreq EXCEPT ![r].pc = "mirror"]
            /\ IF q.existing # NoRow
                 THEN subscriptions' =
                        {IF x.id = q.existing.id
                           THEN [x EXCEPT
                                   !.paid_until = IsoDate(newPaidUntil(
                                      q.existing.paid_until, q.today, q.months)),
                                   !.is_active = TRUE,
                                   !.last_payment_txn_id = q.txn]
                           ELSE x : x \in subscriptions}
                 ELSE subscriptions' = subscriptions \cup
                        {[id |-> 20 + r, user_id |-> q.user,
                          amount |-> subscriptionAmount(q.months),
                          paid_until |-> IsoDate(paidUntil(q.today, q.months)),
                          is_active |-> TRUE,
                          last_payment_txn_id |-> q.txn,
                          status |-> "active"]}
  /\ UNCHANGED <<now, current_amount, subscription_status, subscription_expires_at,
                 withdrawals, donations, wreq, sdreq, dreq, subreq, checkouts,
                 webhook, pages>>

\* The mirror on the users row, as on the gateway path.
MirrorSubscriptionSim(r, ok) ==
  /\ ssubreq[r].pc = "mirror"
  /\ LET q == ssubreq[r] IN
     IF ok
       THEN /\ subscription_status' = [subscription_status EXCEPT ![q.user] = "active"]
            /\ subscription_expires_at' =
                 [subscription_expires_at EXCEPT ![q.user] = paidUntil(q.today, q.months)]
       ELSE UNCHANGED <<subscription_status, subscription_expires_at>>
  /\ ssubreq' = [ssubreq EXCEPT ![r].pc = "done", ![r].result = "success"]
  /\ UNCHANGED <<now, current_amount, withdrawals, donations, subscriptions,
                 wreq, sdreq, dreq, subreq, checkouts, webhook, pages>>

\* ------------------------------------------------- access-time evaluation
\* The page-level expression on a subscription that was read:
\* subscription && subscription.is_active
\*   && new Date(subscription.paid_until) >= new Date()
isActive(subscription) ==
  /\ subscription # NoRow
  /\ subscription.is_active
  /\ ParseDate(subscription.paid_until) >= now

\* The row a component's session reads from subscriptions for a creator:
\* the select policy of the table, "Creators can view own subscriptions"
\* (auth.uid() = user_id), returns the row to the creator's own session where
\* row level security is in force on the table; visible says whether the
\* session of the read is given the row.
SelectSubscription(username, visible) ==
  IF visible THEN SubscriptionOf(username) ELSE NoRow

\* The reads in flight after the answer of one and, with next # "", the
\* sending of the next read of the same effect.
Answered(fetching, username, table, next) ==
  LET rest == fetching (-) SetToBag({Awaited(username, table)})
  IN IF next = "" THEN rest ELSE rest (+) SetToBag({Awaited(username, next)})

\* UserProfile and DonationPage: the effect starts, when the component is
\* mounted (mounted = TRUE: a new instance, its state has the useState
\* initial values and the effects of the instance before it no longer write)
\* and when the :username parameter of its route changes (mounted = FALSE):
\* the users read is sent and nothing is set. The effects of an instance
\* overlap: a route change starts the next one while reads are awaited.
fetchCreator(page, username, mounted) ==
  /\ mounted \/ BagCardinality(pages[page].fetching) < MaxEffects
  /\ LET before == IF mounted THEN Unmounted ELSE pages[page]
     IN pages' = [pages EXCEPT ![page] =
          [creator |-> before.creator, isActive |-> before.isActive,
           loading |-> before.loading,
           fetching |-> before.fetching (+) SetToBag({Awaited(username, "users")})]]
  /\ UNCHANGED <<now, current_amount, subscription_status, subscription_expires_at,
                 withdrawals, donations, subscriptions, wreq, sdreq, dreq, subreq,
                 checkouts, webhook, ssubreq>>

\* The answer of the users read of fetchCreator for username: setCreator and
\* the subscriptions read when a creator is found, setLoading(false)
\* otherwise.
setCreator(page, username) ==
  /\ BagIn(Awaited(username, "users"), pages[page].fetching)
  /\ LET before == pages[page]
         found == username \in Users /\ role(username) = "creator"
     IN pages' = [pages EXCEPT ![page] =
          [creator |-> IF found THEN username ELSE before.creator,
           isActive |-> before.isActive,
           loading |-> IF found THEN before.loading ELSE FALSE,
           fetching |-> Answered(before.fetching, username, "users",
                                 IF found THEN "subscriptions" ELSE "")]]
  /\ UNCHANGED <<now, current_amount, subscription_status, subscription_expires_at,
                 withdrawals, donations, subscriptions, wreq, sdreq, dreq, subreq,
                 checkouts, webhook, ssubreq>>

\* The answer of the subscriptions read of fetchCreator for username:
\* isActive is set only when a subscription row is read; loading is cleared.
fetchCreatorSubscription(page, username, visible) ==
  /\ BagIn(Awaited(username, "subscriptions"), pages[page].fetching)
  /\ LET subscription == SelectSubscription(username, visible) IN
     pages' = [pages EXCEPT ![page] =
       [creator |-> pages[page].creator,
        isActive |-> IF subscription # NoRow THEN isActive(subscription)
                     ELSE pages[page].isActive,
        loading |-> FALSE,
        fetching |-> Answered(pages[page].fetching, username, "subscriptions", "")]]
  /\ UNCHANGED <<now, current_amount, subscription_status, subscription_expires_at,
                 withdrawals, donations, subscriptions, wreq, sdreq, dreq, subreq,
                 checkouts, webhook, ssubreq>>

\* The page offers the creator as accepting donations: it is not loading and
\* neither `!isActive` nor `!creator || !isActive` holds.
ShowsActive(page) ==
  /\ ~pages[page].loading
  /\ pages[page].creator # ""
  /\ pages[page].isActive

\* SubscriptionMiddleware: the effect starts, when the component is mounted
\* (mounted = TRUE) and when location.pathname changes (mounted = FALSE).
\* setLoading(true); on a pathname that is no profile or donation path
\* setLoading(false) and return; otherwise the users read is sent.
\* subscriptionStatus is left as it was.
checkSubscriptionStatus(pathname, mounted) ==
  /\ \/ mounted
     \/ pathname = OtherPath
     \/ BagCardinality(pages["SubscriptionMiddleware"].fetching) < MaxEffects
  /\ LET before == IF mounted THEN Unmounted ELSE pages["SubscriptionMiddleware"]
     IN pages' = [pages EXCEPT !["SubscriptionMiddleware"] =
          [creator |-> before.creator, isActive |-> before.isActive,
           loading |-> pathname # OtherPath,
           fetching |-> IF pathname = OtherPath THEN before.fetching
                        ELSE before.fetching (+) SetToBag({Awaited(pathname, "users")})]]
  /\ UNCHANGED <<now, current_amount, subscription_status, subscription_expires_at,
                 withdrawals, donations, subscriptions, wreq, sdreq, dreq, subreq,
                 checkouts, webhook, ssubreq>>

\* The answer of the users read of checkSubscriptionStatus for username: the
\* subscriptions read is sent when a creator is found; otherwise
\* setLoading(false) and return.
checkSubscriptionUser(username) ==
  /\ BagIn(Awaited(username, "users"), pages["SubscriptionMiddleware"].fetching)
  /\ LET before == pages["SubscriptionMiddleware"]
         found == username \in Users /\ role(username) = "creator"
     IN pages' = [pages EXCEPT !["SubscriptionMiddleware"] =
          [creator |-> before.creator, isActive |-> before.isActive,
           loading |-> IF found THEN before.loading ELSE FALSE,
           fetching |-> Answered(before.fetching, username, "users",
                                 IF found THEN "subscriptions" ELSE "")]]
  /\ UNCHANGED <<now, current_amount, subscription_status, subscription_expires_at,
                 withdrawals, donations, subscriptions, wreq, sdreq, dreq, subreq,
                 checkouts, webhook, ssubreq>>

\* The answer of the subscriptions read of checkSubscriptionStatus for
\* username: setSubscriptionStatus({isActive: !!isActive, user}), then
\* setLoading(false).
setSubscriptionStatus(username, visible) ==
  /\ BagIn(Awaited(username, "subscriptions"),
           pages["SubscriptionMiddleware"].fetching)
  /\ LET before == pages["SubscriptionMiddleware"]
     IN pages' = [pages EXCEPT !["SubscriptionMiddleware"] =
          [creator |-> username,
           isActive |-> isActive(SelectSubscription(username, visible)),
           loading |-> FALSE,
           fetching |-> Answered(before.fetching, username, "subscriptions", "")]]
  /\ UNCHANGED <<now, current_amount, subscription_status, subscription_expires_at,
                 withdrawals, donations, subscriptions, wreq, sdreq, dreq, subreq,
                 checkouts, webhook, ssubreq>>

\* The prop of the middleware: it defaults to false, and no element passes
\* it.
requiresActiveSubscription == FALSE

\* The middleware renders the "Creator Profile Inactive" card instead of its
\* children:
\* subscriptionStatus && !subscriptionStatus.isActive && requiresActiveSubscription
ShowsInactive ==
  /\ requiresActiveSubscription
  /\ ~pages["SubscriptionMiddleware"].loading
  /\ pages["SubscriptionMiddleware"].creator # ""
  /\ ~pages["SubscriptionMiddleware"].isActive

\* ------------------------------------------------------ rupantorpay-webhook
\* Mutant: the status flag of the verification answer is not looked at.
VerifiedCompletedUnflagged(verification) ==
  verification.payment_status = "completed"

\* verification.status && verification.payment_status === 'completed'
VerifiedCompleted(verification) ==
  verification.status /\ verification.payment_status = "completed"

\* Mutant: the rows are matched on the id without its kind prefix.
WebhookDonationsAnyKind(transaction_id, body, verification) ==
  {IF d.txn_id[2] = transaction_id[2] /\ d.txn_id[3] = transaction_id[3]
     THEN [d EXCEPT !.payment_status =
             IF VerifiedCompleted(verification) THEN "completed" ELSE "failed"]
     ELSE d : d \in donations}

\* Mutant: the status is taken from the callback body.
WebhookDonationsTrustingBody(transaction_id, body, verification) ==
  IF startsWith(transaction_id, "DON")
    THEN {IF d.txn_id = transaction_id
            THEN [d EXCEPT !.payment_status =
                    IF body.status = "completed" THEN "completed" ELSE "failed"]
            ELSE d : d \in donations}
    ELSE donations

\* The donations table after the delivery.
WebhookDonations(transaction_id, body, verification) ==
  IF startsWith(transaction_id, "DON")
    THEN {IF d.txn_id = transaction_id
            THEN [d EXCEPT !.payment_status =
                    IF VerifiedCompleted(verification) THEN "completed" ELSE "failed"]
            ELSE d : d \in donations}
    ELSE donations

\* Mutant: the subscription is found by the user part of the transaction id.
WebhookSubscriptionsByUser(transaction_id, body, verification) ==
  IF startsWith(transaction_id, "SUB")
    THEN {IF substring8(x.user_id) = transaction_id[2]
            THEN [x EXCEPT !.is_active = VerifiedCompleted(verification)]
            ELSE x : x \in subscriptions}
    ELSE subscriptions

\* The subscriptions table after the delivery.
WebhookSubscriptions(transaction_id, body, verification) ==
  IF startsWith(transaction_id, "SUB")
    THEN {IF x.last_payment_txn_id = transaction_id
            THEN [x EXCEPT !.is_active = VerifiedCompleted(verification)]
            ELSE x : x \in subscriptions}
    ELSE subscriptions

\* Mutant: every delivery verified completed credits the matching donations.
WebhookBalancesCrediting(transaction_id, body, verification) ==
  IF startsWith(transaction_id, "DON") /\ VerifiedCompleted(verification)
    THEN [u \in Users |->
            current_amount[u] +
              SumAmounts({d \in donations :
                            d.txn_id = transaction_id /\ d.creator_id = u})]
    ELSE current_amount

\* The balances after the delivery: the handler writes no users row.
WebhookBalances(transaction_id, body, verification) == current_amount

\* What a delivery can come to: the verification answer is obtained and the
\* update applied; the update returns an error, which is logged (or not looked
\* at) and answered 200; the verification call or its .json() rejects, and
\* the catch answers 500.
WebhookOutcomes == {"applied", "update_error", "verify_error"}

\* One delivery: the payload, the verification call, the update. The variable
\* webhook keeps the last delivery whose update was applied: count is the
\* number of consecutive such deliveries (up to 2) of this transaction id with
\* this verification answer, matched the number of rows that the filters
\* .eq('txn_id', ...) and .eq('last_payment_txn_id', ...) selected. A delivery
\* that ends in an error writes nothing.
Webhook(transaction_id, body, verification, outcome) ==
  IF outcome # "applied" THEN UNCHANGED vars ELSE
  /\ donations' = WebhookDonations(transaction_id, body, verification)
  /\ subscriptions' = WebhookSubscriptions(transaction_id, body, verification)
  /\ current_amount' = WebhookBalances(transaction_id, body, verification)
  /\ webhook' = [txn |-> transaction_id, body |-> body,
                 verification |-> verification,
                 count |-> IF webhook.txn = transaction_id
                              /\ webhook.verification = verification
                           THEN 2 ELSE 1,
                 matched |-> Cardinality(
                   {d \in donations : /\ startsWith(transaction_id, "DON")
                                      /\ d.txn_id = transaction_id}
                   \cup
                   {x \in subscriptions :
                      /\ startsWith(transaction_id, "SUB")
                      /\ x.last_payment_txn_id = transaction_id})]
  /\ UNCHANGED <<now, subscription_status, subscription_expires_at, withdrawals,
                 wreq, sdreq, dreq, subreq, checkouts, ssubreq, pages>>

\* The transaction ids a delivery can name: the checkout sessions opened and
\* the ids stored on donations and on subscriptions.
KnownTxns ==
  checkouts \cup {d.txn_id : d \in donations}
            \cup {x.last_payment_txn_id : x \in subscriptions}

\* ------------------------------------------------------------------ clock
InitNow == {(d * TicksPerDay) + 1 : d \in InitDays}
LastNow == (CHOOSE n \in InitNow : \A k \in InitNow : k <= n) + MaxClock

Tick ==
  /\ now < LastNow
  /\ now' = now + 1
  /\ UNCHANGED <<current_amount, subscription_status, subscription_expires_at,
                 withdrawals, donations, subscriptions, wreq, sdreq, dreq, subreq,
                 checkouts, webhook, ssubreq, pages>>

\* ------------------------------------------------------------------- Init
\* A subscription bought earlier on the gateway path and confirmed by its
\* webhook, paid ten days past the initial day.
EarlierTxn(u) == TxnId("SUB", substring8(u), 0)
EarlierSubscription(u, day) ==
  [id |-> 9, user_id |-> u, amount |-> MonthlyPrice, paid_until |-> day + 10,
   is_active |-> TRUE, last_payment_txn_id |-> EarlierTxn(u),
   status |-> "pending"]

\* The tables and the handlers before any request of the model.
InitTables ==
  /\ current_amount \in [Users -> InitAmounts]
  /\ \A u \in Users : role(u) # "creator" => current_amount[u] = 0
  /\ \A u \in Users \ Requesters : current_amount[u] = 0
  /\ subscription_status = [u \in Users |-> "inactive"]
  /\ subscription_expires_at = [u \in Users |-> 0]
  /\ withdrawals = {}
  /\ donations = {}
  /\ wreq = [r \in WReqs |-> WIdle]
  /\ sdreq = [r \in SDReqs |-> SDIdle]
  /\ dreq = [r \in DReqs |-> DIdle]
  /\ subreq = [r \in SubReqs |-> SubIdle]
  /\ webhook = NoWebhook
  /\ ssubreq = [r \in SSubReqs |-> SubIdle]
  /\ pages = [p \in Components |-> Unmounted]

InitCommon ==
  /\ now \in InitNow
  /\ InitTables

\* The creators that may hold a subscription initially.
Subscribers == Creators \cap Requesters

\* The creators of S hold a subscription, the others none.
InitSubscribed(S) ==
  /\ subscriptions = {EarlierSubscription(u, Today) : u \in S}
  /\ checkouts = {EarlierTxn(u) : u \in S}

Init ==
  /\ InitCommon
  /\ \E S \in SUBSET Subscribers : InitSubscribed(S)

\* ------------------------------------------------------------------- Next
WithdrawalStep ==
  \/ \E r \in WReqs, caller \in Callers, amount \in WithdrawAmounts :
       RequestWithdrawal(r, caller, amount)
  \/ \E r \in WReqs, ok \in BOOLEAN : InsertWithdrawal(r, ok)
  \/ \E r \in WReqs : DebitBalance(r)

AdminStep ==
  \E w \in withdrawals, action \in {"approve", "reject"}, ok \in BOOLEAN :
    handleWithdrawal(w.id, action, ok)

\* The steps of one process-donation (simulated) invocation.
SimDonationSlot(r) ==
  \/ \E creator_id \in Targets, amount \in DonationAmounts, random \in Randoms :
       ProcessDonationSim(r, creator_id, amount, random)
  \/ \E ok \in BOOLEAN : InsertDonationSim(r, ok)
  \/ CreditBalance(r)

SimDonationStep == \E r \in SDReqs : SimDonationSlot(r)

DonationStep ==
  \/ \E r \in DReqs, creator_id \in Targets, amount \in DonationAmounts :
       ProcessDonation(r, creator_id, amount)
  \/ \E r \in DReqs, accepted \in BOOLEAN : CheckoutDonation(r, accepted)
  \/ \E r \in DReqs, ok \in BOOLEAN : InsertDonation(r, ok)

SubscriptionStep ==
  \/ \E r \in SubReqs, caller \in Callers, months \in Durations :
       CreateSubscription(r, caller, months)
  \/ \E r \in SubReqs, accepted \in BOOLEAN : CheckoutSubscription(r, accepted)
  \/ \E r \in SubReqs : ReadSubscription(r)
  \/ \E r \in SubReqs, ok \in BOOLEAN : WriteSubscription(r, ok)
  \/ \E r \in SubReqs, ok \in BOOLEAN : MirrorSubscription(r, ok)

SimSubscriptionStep ==
  \/ \E r \in SSubReqs, caller \in Callers, months \in Durations,
        random \in Randoms : CreateSubscriptionSim(r, caller, months, random)
  \/ \E r \in SSubReqs : DelaySubscriptionSim(r)
  \/ \E r \in SSubReqs : ReadSubscriptionSim(r)
  \/ \E r \in SSubReqs, ok \in BOOLEAN : WriteSubscriptionSim(r, ok)
  \/ \E r \in SSubReqs, ok \in BOOLEAN : MirrorSubscriptionSim(r, ok)

PageStep ==
  \/ \E page \in Pages, username \in Users, mounted \in BOOLEAN :
       fetchCreator(page, username, mounted)
  \/ \E page \in Pages, username \in Users : setCreator(page, username)
  \/ \E page \in Pages, username \in Users, visible \in BOOLEAN :
       fetchCreatorSubscription(page, username, visible)
  \/ \E pathname \in Pathnames, mounted \in BOOLEAN :
       checkSubscriptionStatus(pathname, mounted)
  \/ \E username \in Users : checkSubscriptionUser(username)
  \/ \E username \in Users, visible \in BOOLEAN :
       setSubscriptionStatus(username, visible)

WebhookStep ==
  \E t \in KnownTxns, body \in Bodies, verification \in Verifications,
     outcome \in WebhookOutcomes : Webhook(t, body, verification, outcome)

Next ==
  \/ WithdrawalStep
  \/ AdminStep
  \/ SimDonationStep
  \/ DonationStep
  \/ SubscriptionStep
  \/ SimSubscriptionStep
  \/ PageStep
  \/ WebhookStep
  \/ Tick

Spec == Init /\ [][Next]_vars

\* Withdrawals, the admin action and one simulated donation, for creators
\* that hold an active subscription.
InitWithdraw ==
  /\ InitCommon
  /\ InitSubscribed(Subscribers)

NextWithdraw ==
  \/ WithdrawalStep
  \/ AdminStep
  \/ SimDonationSlot(1)

SpecWithdraw == InitWithdraw /\ [][NextWithdraw]_vars

\* Gateway-path donations and webhook deliveries, for subscribed creators
\* with an empty balance.
InitDonation ==
  /\ InitCommon
  /\ InitSubscribed(Subscribers)
  /\ \A u \in Users : current_amount[u] = 0

NextDonation ==
  \/ DonationStep
  \/ WebhookStep
  \/ Tick

SpecDonation == InitDonation /\ [][NextDonation]_vars

\* One gateway-path subscription purchase, its webhook deliveries and one
\* gateway-path donation, for creators with an empty balance.
InitEndToEnd ==
  /\ Init
  /\ \A u \in Users : current_amount[u] = 0

NextEndToEnd ==
  \/ \E caller \in Callers, months \in Durations :
       CreateSubscription(1, caller, months)
  \/ \E accepted \in BOOLEAN : CheckoutSubscription(1, accepted)
  \/ ReadSubscription(1)
  \/ \E ok \in BOOLEAN : WriteSubscription(1, ok)
  \/ \E ok \in BOOLEAN : MirrorSubscription(1, ok)
  \/ \E creator_id \in Targets, amount \in DonationAmounts :
       ProcessDonation(1, creator_id, amount)
  \/ \E accepted \in BOOLEAN : CheckoutDonation(1, accepted)
  \/ \E ok \in BOOLEAN : InsertDonation(1, ok)
  \/ WebhookStep
  \/ Tick

SpecEndToEnd == InitEndToEnd /\ [][NextEndToEnd]_vars

\* Subscription purchases on both paths, for creators with an empty balance.
InitSubscription ==
  /\ Init
  /\ \A u \in Users : current_amount[u] = 0

NextSubscription ==
  \/ SubscriptionStep
  \/ SimSubscriptionStep
  \/ Tick

SpecSubscription == InitSubscription /\ [][NextSubscription]_vars

\* Renewals of a subscription that is expired, ends today or is paid ahead,
\* bought in the middle and on the last day of a month.
ExtensionDays == {14, 30}               \* 15 and 31 January
PaidOffsets == {0 - 5, 0, 10}           \* paid_until - today, in days

InitExtension ==
  /\ now \in {ParseDate(d) + 1 : d \in ExtensionDays}
  /\ InitTables
  /\ \A u \in Users : current_amount[u] = 0
  /\ \/ InitSubscribed({})
     \/ \E u \in Subscribers, o \in PaidOffsets :
          /\ subscriptions = {[EarlierSubscription(u, Today) EXCEPT
                                 !.paid_until = Today + o]}
          /\ checkouts = {EarlierTxn(u)}

NextExtension ==
  \/ \E caller \in Callers, months \in Durations :
       CreateSubscription(1, caller, months)
  \/ \E accepted \in BOOLEAN : CheckoutSubscription(1, accepted)
  \/ ReadSubscription(1)
  \/ \E ok \in BOOLEAN : WriteSubscription(1, ok)
  \/ \E ok \in BOOLEAN : MirrorSubscription(1, ok)
  \/ SimSubscriptionStep
  \/ Tick

SpecExtension == InitExtension /\ [][NextExtension]_vars

\* The access gate at the intake: one donation on each path, for a creator
\* whose subscription is missing, inactive, expired, ending today or paid
\* ahead.
InitGate ==
  /\ InitCommon
  /\ \A u \in Users : current_amount[u] = 0
  /\ \/ InitSubscribed({})
     \/ \E u \in Subscribers, o \in PaidOffsets, active \in BOOLEAN :
          /\ subscriptions = {[EarlierSubscription(u, Today) EXCEPT
                                 !.paid_until = Today + o,
                                 !.is_active = active]}
          /\ checkouts = {EarlierTxn(u)}

NextGate ==
  \/ \E creator_id \in Targets, amount \in DonationAmounts :
       ProcessDonation(1, creator_id, amount)
  \/ \E accepted \in BOOLEAN : CheckoutDonation(1, accepted)
  \/ \E ok \in BOOLEAN : InsertDonation(1, ok)
  \/ SimDonationSlot(1)
  \/ Tick

SpecGate == InitGate /\ [][NextGate]_vars

\* The access gate at the components, for the same creators. The
\* components share no state: the steps of one component are followed while
\* the others stay as they are initially.
Alone(component) ==
  \A other \in Components \ {component} : pages[other] = Unmounted

NextPages ==
  \/ \E page \in Pages, username \in Users, mounted \in BOOLEAN :
       Alone(page) /\ fetchCreator(page, username, mounted)
  \/ \E page \in Pages, username \in Users :
       Alone(page) /\ setCreator(page, username)
  \/ \E page \in Pages, username \in Users, visible \in BOOLEAN :
       Alone(page) /\ fetchCreatorSubscription(page, username, visible)
  \/ \E pathname \in Pathnames, mounted \in BOOLEAN :
       Alone("SubscriptionMiddleware") /\ checkSubscriptionStatus(pathname, mounted)
  \/ \E username \in Users :
       Alone("SubscriptionMiddleware") /\ checkSubscriptionUser(username)
  \/ \E username \in Users, visible \in BOOLEAN :
       Alone("SubscriptionMiddleware") /\ setSubscriptionStatus(username, visible)
  \/ Tick

SpecPages == InitGate /\ [][NextPages]_vars

\* Gateway-path donations and webhook deliveries where an intake that has
\* opened its checkout session goes on to its insert: the handler's awaits
\* return. The gateway is not bound to deliver again.
SpecArrival ==
  /\ SpecDonation
  /\ \A r \in DReqs : WF_vars(\E ok \in BOOLEAN : InsertDonation(r, ok))

\* One withdrawal and two simulated donations for a creator with a balance
\* of 100 and an active subscription.
InitBalance ==
  /\ InitCommon
  /\ InitSubscribed(Subscribers)
  /\ current_amount["c1"] = 100

NextBalance ==
  \/ \E caller \in Callers, amount \in WithdrawAmounts :
       RequestWithdrawal(1, caller, amount)
  \/ \E ok \in BOOLEAN : InsertWithdrawal(1, ok)
  \/ DebitBalance(1)
  \/ SimDonationStep

SpecBalance == InitBalance /\ [][NextBalance]_vars

\* =================================================================== claims
WithdrawalRow(r) == {w \in withdrawals : w.id = r}

\* C1: a creator with balance 100 and two withdrawal requests of 60 each, no
\* other request touching the balance and no storage error: whatever the
\* interleaving, once both requests have ended exactly one has succeeded and
\* the other was rejected for insufficient balance.
C1_ExactlyOneWithdrawalSucceeds ==
  ( /\ wreq[1].pc = "done" /\ wreq[2].pc = "done"
    /\ wreq[1].user = "c1" /\ wreq[2].user = "c1"
    /\ wreq[1].amount = 60 /\ wreq[2].amount = 60
    /\ wreq[1].seen = 100
    /\ \A r \in WReqs \ {1, 2} : wreq[r].pc = "idle"
    /\ \A r \in SDReqs : sdreq[r].pc = "idle"
    /\ "insert_failed" \notin {wreq[1].result, wreq[2].result} )
  => {wreq[1].result, wreq[2].result} = {"success", "insufficient"}

\* C2: users.current_amount is never negative.
C2_BalanceNonNegative == \A u \in Users : current_amount[u] >= 0

\* C2 witness: two withdrawal requests of 60 from a balance of 100 have both
\* passed the balance check, inserted their rows and ended, and a simulated
\* donation has ended after inserting its row; the balance is still 100.
C2_Witness ==
  /\ \A r \in {1, 2} :
       /\ wreq[r].pc = "done" /\ wreq[r].user = "c1" /\ wreq[r].amount = 60
       /\ WithdrawalRow(r) # {}
  /\ sdreq[1].pc = "done" /\ sdreq[1].creator = "c1"
  /\ \E d \in donations : d.id = 11
  /\ current_amount["c1"] = 100

\* C3: a delivery whose verification is completed is idempotent: delivering
\* the same transaction id again with verification completed, from the state
\* the first delivery left, changes neither the donations nor any balance.
C3_WebhookIdempotent ==
  [][\A t \in KnownTxns, b1 \in Bodies, b2 \in Bodies, v \in Verifications :
       (VerifiedCompleted(v) /\ Webhook(t, b1, v, "applied"))
         => /\ WebhookDonations(t, b2, v)' = donations'
            /\ WebhookBalances(t, b2, v)' = current_amount']_vars

\* C3 witness: a DON_ transaction delivered twice in a row with verification
\* completed, its donation completed.
C3_Witness ==
  /\ webhook.count = 2
  /\ startsWith(webhook.txn, "DON")
  /\ VerifiedCompleted(webhook.verification)
  /\ \E d \in donations : d.txn_id = webhook.txn /\ d.payment_status = "completed"

\* C4: once a donation's payment_status is completed or failed, no step
\* changes it.
C4_TerminalStatuses ==
  [][\A d \in donations :
       d.payment_status \in {"completed", "failed"}
         => \E e \in donations' : e.id = d.id /\ e.payment_status = d.payment_status]_vars

\* C5: a delivery for a SUB_ transaction id changes no donation row, and a
\* delivery for a DON_ transaction id changes no subscription row, whatever
\* the verification answer and the body.
C5_DispatchByPrefix ==
  [][(donations' # donations \/ subscriptions' # subscriptions)
       => \A t \in KnownTxns, b \in Bodies, v \in Verifications :
            Webhook(t, b, v, "applied")
              => /\ startsWith(t, "SUB") => donations' = donations
                 /\ startsWith(t, "DON") => subscriptions' = subscriptions]_vars

\* C5 witness: a SUB_ delivery has deactivated its subscription next to a
\* pending donation made at the clock reading of the subscription purchase.
C5_Witness ==
  /\ startsWith(webhook.txn, "SUB")
  /\ \E x \in subscriptions : x.last_payment_txn_id = webhook.txn /\ x.id = 1
  /\ \E d \in donations : d.txn_id[3] = webhook.txn[3] /\ d.payment_status = "pending"

\* C6: the ledger a delivery leaves depends on the transaction id and the
\* verification answer only: the same delivery with any other body leaves the
\* same donations, subscriptions and balances.
C6_BodyNotTrusted ==
  [][\A t \in KnownTxns, b1 \in Bodies, b2 \in Bodies, v \in Verifications :
       Webhook(t, b1, v, "applied")
         => /\ donations' = WebhookDonations(t, b2, v)
            /\ subscriptions' = WebhookSubscriptions(t, b2, v)
            /\ current_amount' = WebhookBalances(t, b2, v)]_vars

\* C6 witness: a delivery whose body says completed while the verification
\* does not has left the donation failed.
C6_Witness ==
  /\ webhook.body.status = "completed"
  /\ ~VerifiedCompleted(webhook.verification)
  /\ \E d \in donations : d.txn_id = webhook.txn /\ d.payment_status = "failed"

\* C7: each creator's balance holds the amount of every completed donation
\* exactly once (balances start at 0 and nothing is withdrawn).
C7_CompletedDonationsCredited ==
  \A u \in Creators :
    current_amount[u] =
      SumAmounts({d \in donations : d.creator_id = u /\ d.payment_status = "completed"})

\* C8, first part: the subscription a creator without one buys for a month on
\* the gateway path costs 100, is paid until the same day of the next month
\* and is inactive until a delivery verified completed activates it.
C8_SubscriptionCreated ==
  /\ [](\A x \in subscriptions :
          (x.id = 1 /\ subreq[1].existing = NoRow /\ subreq[1].pc \in {"mirror", "done"})
            => /\ x.amount = 100
               /\ x.paid_until = IsoDate(subreq[1].today) + 31)
  /\ [][\A x \in subscriptions' \ subscriptions :
          /\ x.id = 1 /\ subreq[1].pc = "write" => ~x.is_active
          /\ x.is_active
               => /\ webhook'.txn = x.last_payment_txn_id
                  /\ VerifiedCompleted(webhook'.verification)]_vars

\* The scenario of C8 has run: first subscription bought and confirmed, a
\* donation of 50 accepted and confirmed.
EndToEndDone ==
  /\ subreq[1].user = "c1" /\ subreq[1].result = "success"
  /\ subreq[1].existing = NoRow
  /\ \E x \in subscriptions : x.id = 1 /\ x.is_active
  /\ dreq[1].creator = "c1" /\ dreq[1].amount = 50 /\ dreq[1].result = "success"
  /\ \E d \in donations : d.id = 1 /\ d.payment_status = "completed"

\* C8: after the end-to-end scenario the creator's balance is 50.
C8_EndToEnd == EndToEndDone => current_amount["c1"] = 50

\* C9: a withdrawal request for more than the balance read is rejected
\* without a row and without a change of the balance; a request for exactly
\* the balance, the only request made and met by no storage error, ends as
\* a success with a row of that amount and a balance of 0; the insert adds
\* exactly one row, pending, of that amount.
C9_WithdrawalBoundary ==
  /\ [][\A r \in WReqs, caller \in Creators, amount \in WithdrawAmounts :
          (amount > 0 /\ RequestWithdrawal(r, caller, amount))
            => /\ amount > current_amount[caller]
                 => /\ wreq'[r].pc = "done" /\ wreq'[r].result = "insufficient"
                    /\ withdrawals' = withdrawals
                    /\ current_amount' = current_amount
               /\ amount = current_amount[caller] => wreq'[r].pc = "insert"]_vars
  /\ [](\A r \in WReqs :
          /\ wreq[r].result = "insufficient" => WithdrawalRow(r) = {}
          /\ ( /\ wreq[r].pc = "done" /\ wreq[r].result # "insert_failed"
               /\ wreq[r].user \in Creators /\ wreq[r].amount > 0
               /\ wreq[r].seen = wreq[r].amount
               /\ \A q \in WReqs \ {r} : wreq[q].pc = "idle"
               /\ \A q \in SDReqs : sdreq[q].pc = "idle" )
               => /\ wreq[r].result = "success"
                  /\ current_amount[wreq[r].user] = 0
                  /\ \E w \in WithdrawalRow(r) : w.amount = wreq[r].amount)
  /\ [][\A r \in WReqs :
          (wreq[r].pc = "insert" /\ wreq'[r].pc = "debit")
            => /\ WithdrawalRow(r) = {}
               /\ withdrawals' \ withdrawals =
                    {[id |-> r, user_id |-> wreq[r].user, amount |-> wreq[r].amount,
                      status |-> "pending", processed |-> FALSE]}]_vars

\* C10: a withdrawal request that ended in an error has left no row.
C10_FailedWithdrawalLeavesNoRow ==
  \A r \in WReqs :
    (wreq[r].pc = "done"
       /\ wreq[r].result \in {"insert_failed", "failed", "internal_error"})
      => WithdrawalRow(r) = {}

\* C11: every withdrawal row's amount has already been deducted from its
\* user's balance: when a request is the only one to have run, its row
\* exists only next to the balance it read less the amount.
C11_RowAlreadyDebited ==
  \A r \in WReqs :
    ( /\ WithdrawalRow(r) # {}
      /\ \A q \in WReqs \ {r} : wreq[q].pc = "idle"
      /\ \A q \in SDReqs : sdreq[q].pc = "idle" )
    => current_amount[wreq[r].user] = Debited(wreq[r].seen, wreq[r].amount)

\* C12: no user holds more than one subscription row.
C12_OneSubscriptionPerUser ==
  \A u \in Users : Cardinality({x \in subscriptions : x.user_id = u}) <= 1

\* Calendar arithmetic on dates: the later of two days, and the day n months
\* after a day.
LaterDay(a, b) == IF a > b THEN a ELSE b
AddMonths(day, n) == IsoDate(setMonth(ParseDate(day), n))

\* The row a renewal has written is paid until the later of the paid_until
\* it read and the day it read the clock, plus the months bought.
Extended(q, rows) ==
  \E x \in rows :
    /\ x.id = q.existing.id
    /\ x.paid_until =
         AddMonths(LaterDay(q.existing.paid_until, IsoDate(q.today)), q.months)
    /\ (q.months = 1 /\ IsoDate(q.today) = 14
          /\ q.existing.paid_until = IsoDate(q.today) + 10)
         => x.paid_until = IsoDate(q.today) + 10 + 31
    /\ (q.months = 1 /\ IsoDate(q.today) = 14
          /\ q.existing.paid_until = IsoDate(q.today) - 5)
         => x.paid_until = IsoDate(q.today) + 31

\* C13: when a subscription exists, the paid_until a subscription intake
\* writes is max(existing paid_until, today) + duration_months, on both
\* paths: paid ten days ahead on 15 January, one month gives 25 February;
\* expired five days ago, one month gives 15 February.
C13_ExtensionRule ==
  [][ /\ \A r \in SubReqs :
           (subreq[r].pc = "write" /\ subreq'[r].pc = "mirror"
              /\ subreq[r].existing # NoRow)
             => Extended(subreq[r], subscriptions')
      /\ \A r \in SSubReqs :
           (ssubreq[r].pc = "write" /\ ssubreq'[r].pc = "mirror"
              /\ ssubreq[r].existing # NoRow)
             => Extended(ssubreq[r], subscriptions') ]_vars

\* C13 witness: a one-month renewal on the gateway path of a subscription
\* paid ten days ahead has been written on 15 January, and the row is paid
\* until 25 February.
C13_Witness ==
  \E r \in SubReqs :
    /\ subreq[r].pc = "mirror"
    /\ subreq[r].existing # NoRow
    /\ IsoDate(subreq[r].today) = 14
    /\ subreq[r].existing.paid_until = 24
    /\ \E x \in subscriptions : x.id = subreq[r].existing.id /\ x.paid_until = 55

\* A creator is not accepting donations: no subscription row, or a row that
\* is inactive or paid until a day before today.
NotAccepting(u) ==
  \A x \in {y \in subscriptions : y.user_id = u} :
    ~x.is_active \/ x.paid_until < Today

\* C14 at the donation intake: a creator that is not accepting donations
\* fails the intake's subscription check, on both paths.
C14_IntakeGate ==
  [][ /\ \A r \in DReqs, c \in Creators, a \in DonationAmounts :
           (ProcessDonation(r, c, a) /\ a >= MinDonation /\ NotAccepting(c))
             => dreq'[r].result = "inactive"
      /\ \A r \in SDReqs, c \in Creators, a \in DonationAmounts, n \in Randoms :
           (ProcessDonationSim(r, c, a, n) /\ a >= MinDonation /\ NotAccepting(c))
             => sdreq'[r].result = "inactive" ]_vars

\* C14 at the middleware: the status it sets for a creator that is not
\* accepting donations is inactive.
C14_MiddlewareGate ==
  [][ \A u \in Creators, visible \in BOOLEAN :
        (setSubscriptionStatus(u, visible) /\ NotAccepting(u))
          => ShowsInactive' ]_vars

\* C14: wherever the gate is evaluated, a creator without a subscription,
\* with an inactive one or with one paid until a day before today is not
\* accepting donations: the intake rejects, the middleware's status is
\* inactive, and the profile and donation pages do not show the creator as
\* active once its subscription has been fetched.
C14_GateRequiresBoth ==
  /\ C14_IntakeGate
  /\ C14_MiddlewareGate
  /\ [][\A page \in Pages, u \in Creators, visible \in BOOLEAN :
          (fetchCreatorSubscription(page, u, visible) /\ NotAccepting(u))
            => ~ShowsActive(page)']_vars

\* The subscription of a creator is active and paid until today.
PaidUntilToday(u) ==
  \E x \in subscriptions :
    /\ x.user_id = u /\ x.is_active /\ x.paid_until = Today
    /\ \A y \in subscriptions : y.user_id = u => y = x

\* C15: a creator whose subscription is active and paid until today's date
\* is accepting donations at every moment of that day: the intake does not
\* reject a valid donation as inactive, and a page or the middleware that
\* fetches the creator's subscription shows it as active.
C15_PaidUntilTodayAccepts ==
  [][ /\ \A r \in DReqs, c \in Creators, a \in DonationAmounts :
           (ProcessDonation(r, c, a) /\ a >= MinDonation /\ PaidUntilToday(c))
             => dreq'[r].result # "inactive"
      /\ \A r \in SDReqs, c \in Creators, a \in DonationAmounts, n \in Randoms :
           (ProcessDonationSim(r, c, a, n) /\ a >= MinDonation /\ PaidUntilToday(c))
             => sdreq'[r].result # "inactive"
      /\ \A page \in Pages, u \in Creators, visible \in BOOLEAN :
           (fetchCreatorSubscription(page, u, visible) /\ PaidUntilToday(u))
             => ShowsActive(page)'
      /\ \A u \in Creators, visible \in BOOLEAN :
           (setSubscriptionStatus(u, visible) /\ PaidUntilToday(u))
             => ~ShowsInactive' ]_vars

\* C16: on both paths a donation intake with amount below 10 ends as invalid
\* without a donation row and without a change of any balance, and an intake
\* with amount exactly 10 and a creator_id is not rejected as invalid.
C16_MinimumAmount ==
  /\ [][ /\ \A r \in DReqs, c \in Targets, a \in DonationAmounts :
               ProcessDonation(r, c, a)
                 => /\ a < MinDonation
                         => /\ dreq'[r].pc = "done" /\ dreq'[r].result = "invalid"
                            /\ donations' = donations
                            /\ current_amount' = current_amount
                            /\ checkouts' = checkouts
                    /\ (a = MinDonation /\ c # "") => dreq'[r].result # "invalid"
         /\ \A r \in SDReqs, c \in Targets, a \in DonationAmounts, n \in Randoms :
               ProcessDonationSim(r, c, a, n)
                 => /\ a < MinDonation
                         => /\ sdreq'[r].pc = "done" /\ sdreq'[r].result = "invalid"
                            /\ donations' = donations
                            /\ current_amount' = current_amount
                    /\ (a = MinDonation /\ c # "") => sdreq'[r].result # "invalid" ]_vars
  /\ [](/\ \A r \in DReqs : dreq[r].result = "invalid"
                => \A d \in donations : d.id # r
        /\ \A r \in SDReqs : sdreq[r].result = "invalid"
                => \A d \in donations : d.id # 10 + r)

\* C16 witness: a gateway-path donation of 9 has been rejected as invalid and
\* a simulated donation of 10 has passed the checks and inserted its row.
C16_Witness ==
  /\ dreq[1].amount = 9 /\ dreq[1].creator = "c1" /\ dreq[1].result = "invalid"
  /\ \A d \in donations : d.id # 1
  /\ sdreq[1].amount = 10 /\ sdreq[1].creator = "c1" /\ sdreq[1].pc = "done"
  /\ \E d \in donations : d.id = 11 /\ d.amount = 10

\* C17: on both paths a valid donation to a creator that is not accepting
\* donations ends as inactive: no donation row, no checkout session, no
\* change of any balance.
C17_InactiveCreatorRejected ==
  /\ [][ /\ \A r \in DReqs, c \in Creators, a \in DonationAmounts :
               (ProcessDonation(r, c, a) /\ a >= MinDonation /\ NotAccepting(c))
                 => /\ dreq'[r].pc = "done" /\ dreq'[r].result = "inactive"
                    /\ donations' = donations
                    /\ checkouts' = checkouts
                    /\ current_amount' = current_amount
         /\ \A r \in SDReqs, c \in Creators, a \in DonationAmounts, n \in Randoms :
               (ProcessDonationSim(r, c, a, n) /\ a >= MinDonation /\ NotAccepting(c))
                 => /\ sdreq'[r].pc = "done" /\ sdreq'[r].result = "inactive"
                    /\ donations' = donations
                    /\ checkouts' = checkouts
                    /\ current_amount' = current_amount ]_vars
  /\ [](/\ \A r \in DReqs : dreq[r].result = "inactive"
                => /\ \A d \in donations : d.id # r
                   /\ dreq[r].pc = "done" /\ dreq[r].txn = NoTxn
        /\ \A r \in SDReqs : sdreq[r].result = "inactive"
                => \A d \in donations : d.id # 10 + r)

\* C17 witness: donations of 50 to a creator whose subscription is inactive
\* though paid ahead have been rejected on both paths.
C17_Witness ==
  /\ dreq[1].amount = 50 /\ dreq[1].result = "inactive"
  /\ sdreq[1].amount = 50 /\ sdreq[1].result = "inactive"
  /\ \E x \in subscriptions :
       x.user_id = dreq[1].creator /\ ~x.is_active /\ x.paid_until > Today
  /\ donations = {}

\* C18: a checkout initiation that the gateway rejects, or that throws, ends
\* the intake with an internal error and leaves the donations, the
\* subscriptions and the users' mirror fields as they were; a donation row
\* and a subscription write carry the id of an opened checkout session.
C18_GatewayFailureLeavesNothing ==
  /\ [][ /\ \A r \in DReqs :
               CheckoutDonation(r, FALSE)
                 => /\ dreq'[r].pc = "done" /\ dreq'[r].result = "internal_error"
                    /\ donations' = donations
                    /\ current_amount' = current_amount
                    /\ checkouts' = checkouts
         /\ \A r \in SubReqs :
               CheckoutSubscription(r, FALSE)
                 => /\ subreq'[r].pc = "done" /\ subreq'[r].result = "internal_error"
                    /\ checkouts' = checkouts
                    /\ subscriptions' = subscriptions
                    /\ subscription_status' = subscription_status
                    /\ subscription_expires_at' = subscription_expires_at
         /\ \A d \in donations' \ donations : d.txn_id \in checkouts
         /\ \A x \in subscriptions' \ subscriptions :
               x.last_payment_txn_id \in checkouts
         /\ subscription_status' # subscription_status
               => \E r \in SubReqs :
                    subreq[r].pc = "mirror" /\ subreq[r].txn \in checkouts ]_vars
  /\ [](/\ \A r \in DReqs : dreq[r].result = "internal_error"
                => dreq[r].pc = "done" /\ \A d \in donations : d.id # r
        /\ \A r \in SubReqs : subreq[r].result = "internal_error"
                => subreq[r].pc = "done" /\ \A x \in subscriptions : x.id # r)

\* C18 witness: the gateway has refused the checkout of a valid donation and
\* of a subscription purchase; no donation exists and the mirror is untouched.
C18_Witness ==
  /\ dreq[1].txn # NoTxn /\ dreq[1].result = "internal_error"
  /\ subreq[1].txn # NoTxn /\ subreq[1].result = "internal_error"
  /\ donations = {}
  /\ subscription_status[subreq[1].user] = "inactive"

\* C19: a gateway-path donation intake that succeeds has added exactly one
\* donation row, pending, with the creator, the amount and the transaction
\* id generated for the request, and has left every balance unchanged.
C19_GatewayIntakePending ==
  [][\A r \in DReqs :
       (dreq[r].result # "success" /\ dreq'[r].result = "success")
         => /\ donations \subseteq donations'
            /\ \E d \in donations' \ donations :
                 /\ donations' \ donations = {d}
                 /\ d.payment_status = "pending"
                 /\ d.txn_id = dreq[r].txn /\ d.txn_id # NoTxn
                 /\ d.creator_id = dreq[r].creator /\ d.amount = dreq[r].amount
            /\ current_amount' = current_amount]_vars

\* C19 witness: a gateway-path donation of 50 has succeeded, its row is
\* pending and the creator's balance is still 0.
C19_Witness ==
  \E r \in DReqs :
    /\ dreq[r].result = "success" /\ dreq[r].amount = 50
    /\ \E d \in donations :
         d.id = r /\ d.txn_id = dreq[r].txn /\ d.payment_status = "pending"
    /\ current_amount[dreq[r].creator] = 0

\* The donation transaction ids the requests of the model can generate.
DonTxns ==
  {TxnId("DON", substring8(c), n) :
     c \in Subscribers, n \in (LastNow - MaxClock)..LastNow}

\* The donation of transaction t is completed, or there is none because its
\* insert failed, or the gateway has not verified t as completed.
Reconciled(t) ==
  \/ \E d \in donations : d.txn_id = t /\ d.payment_status = "completed"
  \/ \E r \in DReqs : dreq[r].txn = t /\ dreq[r].result = "insert_failed"
  \/ webhook.txn = t /\ ~VerifiedCompleted(webhook.verification)

\* C20: once the webhook of a donation transaction that the gateway verifies
\* as completed has been delivered, before or after the insert of the
\* donation row, the donation is eventually completed.
C20_DeliveredEventuallyCompleted ==
  \A t \in DonTxns :
    (webhook.txn = t /\ VerifiedCompleted(webhook.verification)) ~> Reconciled(t)

\* C21: two distinct initiation attempts never generate the same transaction
\* id, so no two donation rows share a txn_id and no two subscription rows a
\* last_payment_txn_id.
C21_UniqueTxnIds ==
  /\ \A r1 \in DReqs, r2 \in DReqs :
       (r1 # r2 /\ dreq[r1].txn # NoTxn /\ dreq[r2].txn # NoTxn)
         => dreq[r1].txn # dreq[r2].txn
  /\ \A d1 \in donations, d2 \in donations :
       d1.id # d2.id => d1.txn_id # d2.txn_id
  /\ \A x1 \in subscriptions, x2 \in subscriptions :
       x1.id # x2.id => x1.last_payment_txn_id # x2.last_payment_txn_id

\* C22: every txn_id stored on a donation row starts with DON_ and every
\* last_payment_txn_id stored on a subscription row starts with SUB_.
C22_PrefixTagged ==
  /\ \A d \in donations : startsWith(d.txn_id, "DON")
  /\ \A x \in subscriptions : startsWith(x.last_payment_txn_id, "SUB")

\* C23: no update of the balance is lost: for a creator with balance 100,
\* whatever the interleaving of the simulated donations and the withdrawal,
\* once the handlers have ended the balance is 100 plus the amount of every
\* donation made less the amount of the withdrawal held.
C23_NoLostUpdate ==
  ( /\ \A r \in SDReqs : sdreq[r].pc \in {"idle", "done"}
    /\ \A r \in WReqs : wreq[r].pc \in {"idle", "done"} )
  => current_amount["c1"] =
       (100 + SumAmounts({d \in donations : d.creator_id = "c1"}))
         - SumAmounts({w \in withdrawals : w.user_id = "c1"})

\* C24: a delivery whose verification is not verified-completed sets every
\* donation with its DON_ id to failed, sets is_active false on every
\* subscription whose last_payment_txn_id is its SUB_ id, and changes no
\* balance.
C24_NotCompletedDelivery ==
  [][ (/\ webhook' # webhook
       /\ ~(/\ webhook'.verification.status
            /\ webhook'.verification.payment_status = "completed"))
      => /\ current_amount' = current_amount
         /\ \A d \in donations :
              (d.txn_id = webhook'.txn /\ startsWith(d.txn_id, "DON"))
                => /\ [d EXCEPT !.payment_status = "failed"] \in donations'
                   /\ \A e \in donations' :
                        e.id = d.id => e.payment_status = "failed"
         /\ \A x \in subscriptions :
              (x.last_payment_txn_id = webhook'.txn
                 /\ startsWith(webhook'.txn, "SUB"))
                => /\ [x EXCEPT !.is_active = FALSE] \in subscriptions'
                   /\ \A y \in subscriptions' : y.id = x.id => ~y.is_active
    ]_vars

\* C24 witness: a delivery that was not verified-completed has deactivated
\* the earlier subscription of c1, after another one failed a donation.
C24_Witness ==
  /\ webhook.txn = EarlierTxn("c1")
  /\ ~(webhook.verification.status
        /\ webhook.verification.payment_status = "completed")
  /\ \E x \in subscriptions :
       x.last_payment_txn_id = webhook.txn /\ ~x.is_active
  /\ \E d \in donations : d.payment_status = "failed"

\* C25: when a gateway-path subscription intake writes the mirror on the
\* users row, subscription_expires_at denotes the date that the intake
\* stored as paid_until on the subscriptions row, for a first purchase and
\* for an extension alike.
C25_MirrorAgrees ==
  [][ (/\ subreq[1].pc = "mirror"
       /\ subreq'[1].pc = "done"
       /\ subscription_expires_at'[subreq[1].user]
            # subscription_expires_at[subreq[1].user])
      => \A x \in subscriptions' :
           x.last_payment_txn_id = subreq[1].txn
             => x.paid_until = IsoDate(subscription_expires_at'[subreq[1].user])
    ]_vars

\* C26: the admin action changes one withdrawals row, and on it only the
\* status (to approved or rejected) and processed_at; every balance and
\* every other table is left as it was, for a rejection too.
C26_AdminActionFrame ==
  [][ (\E w \in withdrawals, v \in withdrawals' :
         w.id = v.id /\ w.status # v.status)
      => /\ current_amount' = current_amount
         /\ \E w \in withdrawals, s \in {"approved", "rejected"} :
              withdrawals' = (withdrawals \ {w}) \cup
                               {[w EXCEPT !.status = s, !.processed = TRUE]}
         /\ UNCHANGED <<donations, subscriptions, subscription_status,
                        subscription_expires_at>>
    ]_vars

\* C26 witness: the row of a withdrawal request of 60 from a balance of 100
\* was rejected; the balance is what it was before the rejection, 100.
C26_Witness ==
  /\ wreq[1].pc = "done" /\ wreq[1].user = "c1" /\ wreq[1].amount = 60
  /\ wreq[1].seen = 100
  /\ wreq[2].pc = "idle" /\ sdreq[1].pc = "idle"
  /\ \E w \in withdrawals :
       w.id = 1 /\ w.status = "rejected" /\ w.processed
  /\ current_amount["c1"] = 100

\* C27: a delivery changes no subscription whose last_payment_txn_id differs
\* from its transaction id; when a later intake has overwritten the id, a
\* late delivery for the earlier transaction leaves the table as it was.
C27_OnlyMatchingSubscription ==
  [][ webhook' # webhook
      => /\ \A x \in subscriptions :
              x.last_payment_txn_id # webhook'.txn => x \in subscriptions'
         /\ \A y \in subscriptions' :
              y.last_payment_txn_id # webhook'.txn => y \in subscriptions
         /\ (\A x \in subscriptions : x.last_payment_txn_id # webhook'.txn)
              => subscriptions' = subscriptions
    ]_vars

\* C27 witness: the renewal of c1 has overwritten last_payment_txn_id, and a
\* delivery verified completed for the earlier transaction then matched no
\* row: the subscription stays inactive.
C27_Witness ==
  /\ webhook.txn = EarlierTxn("c1")
  /\ webhook.verification.status
  /\ webhook.verification.payment_status = "completed"
  /\ webhook.matched = 0
  /\ subreq[1].user = "c1" /\ subreq[1].txn # EarlierTxn("c1")
  /\ \E x \in subscriptions :
       /\ x.user_id = "c1" /\ x.last_payment_txn_id = subreq[1].txn
       /\ ~x.is_active

\* C28: paid time is granted for confirmed payments only: while no delivery
\* has been made for any transaction, the subscription that a gateway-path
\* renewal found keeps the paid_until that the renewal read.
C28_PaidTimeConfirmed ==
  (webhook = NoWebhook /\ subreq[1].existing # NoRow)
    => \A x \in subscriptions :
         x.id = subreq[1].existing.id
           => x.paid_until = subreq[1].existing.paid_until

\* The creator's completed donations and withdrawals rows.
CompletedDonations(u) ==
  {d \in donations : d.creator_id = u /\ d.payment_status = "completed"}
WithdrawalsOf(u) == {w \in withdrawals : w.user_id = u}

\* No handler is between two of its steps and none met a storage error.
Quiescent ==
  /\ \A r \in DReqs : dreq[r].pc \in {"idle", "done"}
                         /\ dreq[r].result # "insert_failed"
  /\ \A r \in SDReqs : sdreq[r].pc \in {"idle", "done"}
                          /\ sdreq[r].result \in {"none", "success"}
  /\ \A r \in WReqs : wreq[r].pc \in {"idle", "done"}
                         /\ wreq[r].result \in {"none", "success"}

\* C29: in a quiescent state reached without storage errors, every balance
\* is the sum of the creator's completed donations less the sum of the
\* creator's withdrawals rows.
C29_BalanceConservation ==
  Quiescent
    => \A u \in Users :
         current_amount[u] =
           SumAmounts(CompletedDonations(u)) - SumAmounts(WithdrawalsOf(u))

\* C30: a creator who is accepting donations keeps is_active on every step
\* that is not a delivery, the write of a gateway-path renewal included.
C30_RenewalKeepsAccepting ==
  [][ webhook' = webhook
      => \A x \in subscriptions :
           (x.is_active /\ ~(ParseDate(x.paid_until) < now))
             => \E y \in subscriptions' : y.id = x.id /\ y.is_active
    ]_vars

====
